---- MODULE Spec2Model ----
(***************************************************************************)
(* Model of extensions/microsoft-authentication/src/common/accountAccess.ts *)
(*                                                                         *)
(* ScopedAccountAccess (the registry) keeps a cached allow-list `value`    *)
(* and refreshes it from AccountAccessSecretStorage (the ledger), which    *)
(* keeps the list under two keys of a SecretStorage backend.  Every        *)
(* backend call is a suspension point: a call is issued, the backend       *)
(* serves it at some later moment, and the awaiting function resumes at a  *)
(* still later moment.                                                     *)
(***************************************************************************)
EXTENDS Naturals, Sequences, FiniteSets, Bags, TLC

(* ------------------------------ bounds -------------------------------- *)

\* setAllowedAccess calls issued in one behaviour of Spec
MaxCalls == 2
\* setAllowedAccess calls issued in one behaviour of SpecSeq
MaxSeqCalls == 3
\* setAllowedAccess calls issued in one behaviour of SpecExt
MaxExtCalls == 1
\* refreshes (update) in progress at the same time
MaxUpdates == 2
\* backend notifications that no call of this registry caused
MaxExternal == 1
\* setAllowedAccess calls issued in one behaviour of SpecFail
MaxFailCalls == 1

(* ------------------------------ values -------------------------------- *)

\* account.homeAccountId of the accounts used
Ids == {"A", "B"}

\* this._key, this._legacyKey, and some key of another scope
key == "accounts-cloud"
legacyKey == "accounts-cloud-client-authority"
otherKey == "other"
Keys == {key, legacyKey}
AllKeys == {key, legacyKey, otherKey}

\* what secretStorage.get resolves to for a key that is not stored
Absent == <<"undefined">>

\* the elements of a list, as `new Set(list)` holds them
SetOf(list) == {list[i] : i \in 1..Len(list)}

NoDup(list) == \A i, j \in 1..Len(list) : i # j => list[i] # list[j]

\* list.includes(id)
Includes(list, id) == \E i \in 1..Len(list) : list[i] = id

\* list.filter(x => x !== id)
RECURSIVE Without(_, _)
Without(list, id) ==
    IF list = <<>> THEN <<>>
    ELSE IF Head(list) = id THEN Without(Tail(list), id)
         ELSE <<Head(list)>> \o Without(Tail(list), id)

\* JSON.stringify of an array of strings, as a sequence of tokens: the
\* token of an identifier stands for its quoted form
RECURSIVE Items(_)
Items(list) ==
    IF list = <<>> THEN <<>>
    ELSE IF Len(list) = 1 THEN <<list[1]>>
         ELSE <<list[1], ",">> \o Items(Tail(list))

Stringify(list) == <<"[">> \o Items(list) \o <<"]">>

\* stored strings that are no serialized array of strings: a truncated
\* array (no JSON at all), and the JSON texts of null and of an object
Truncated == <<"[", "A">>
NullJson == <<"null">>
ObjectJson == <<"{", "}">>

\* the JavaScript values null and {}, which are no arrays
Null == <<"null">>
Object == <<"{}">>
IsArray(v) == v # Null /\ v # Object

\* JSON.parse of an array of strings, of null or of an object: ok is FALSE
\* where it throws, and list is the value it returns (the array as a
\* sequence, Null, or Object)
RECURSIVE ParseItems(_)
ParseItems(toks) ==
    IF toks = <<>> THEN [ok |-> FALSE, list |-> <<>>]
    ELSE IF Head(toks) \notin Ids THEN [ok |-> FALSE, list |-> <<>>]
    ELSE IF Len(toks) = 1 THEN [ok |-> TRUE, list |-> <<Head(toks)>>]
    ELSE IF toks[2] # "," THEN [ok |-> FALSE, list |-> <<>>]
    ELSE LET rest == ParseItems(SubSeq(toks, 3, Len(toks)))
         IN  [ok |-> rest.ok,
              list |-> IF rest.ok THEN <<Head(toks)>> \o rest.list ELSE <<>>]

Parse(raw) ==
    IF raw = NullJson THEN [ok |-> TRUE, list |-> Null]
    ELSE IF raw = ObjectJson THEN [ok |-> TRUE, list |-> Object]
    ELSE IF Len(raw) < 2 \/ raw[1] # "[" \/ raw[Len(raw)] # "]"
    THEN [ok |-> FALSE, list |-> <<>>]
    ELSE IF Len(raw) = 2 THEN [ok |-> TRUE, list |-> <<>>]
    ELSE ParseItems(SubSeq(raw, 2, Len(raw) - 1))

\* `if (value)`: undefined and the empty string are falsy
Truthy(raw) == raw # Absent /\ raw # <<>>

(* ------------------------------ state --------------------------------- *)

VARIABLES
    secrets,      \* the backend: key -> stored string, or Absent
    value,        \* ScopedAccountAccess.value, the cached list
    updates,      \* bag of refreshes (update) in progress
    calls,        \* bag of setAllowedAccess calls awaiting their Promise.all
    notifs,       \* backend onDidChange events not yet delivered, per key
    initialized,  \* "no", "running", "done": the initialize() call
    fired,        \* number of onDidAccountAccessChange events emitted
    log,          \* the setAllowedAccess calls issued so far
    external,     \* number of backend notifications not caused by this registry
    initial,      \* the backend's content when the registry was constructed
    rejected      \* number of setAllowedAccess promises that rejected

vars == <<secrets, value, updates, calls, notifs, initialized, fired, log,
          external, initial, rejected>>

One(x) == SetToBag({x})

\* nothing in progress and initialize() has completed
Quiescent ==
    /\ initialized = "done"
    /\ updates = EmptyBag
    /\ calls = EmptyBag
    /\ \A k \in AllKeys : notifs[k] = 0

\* the backend contents a registry may be constructed over
InitialLists == {<<"A">>, <<"A", "B">>}

InitialSecrets ==
    {[k \in Keys |-> Absent]}
    \cup {[k \in Keys |-> Stringify(l)] : l \in InitialLists}
    \cup {[k \in Keys |-> IF k = legacyKey THEN Stringify(l) ELSE Absent] :
              l \in InitialLists}

\* the state after `new ScopedAccountAccess(...)`
InitWith(S) ==
    /\ secrets \in S
    /\ initial = secrets
    /\ value = <<>>
    /\ updates = EmptyBag
    /\ calls = EmptyBag
    /\ notifs = [k \in AllKeys |-> 0]
    /\ initialized = "no"
    /\ fired = 0
    /\ log = <<>>
    /\ external = 0
    /\ rejected = 0

Init == InitWith(InitialSecrets)

(* --------------------------- the registry ----------------------------- *)

\* update(), up to its first suspension: snapshots the cache and calls
\* get(), which issues secretStorage.get(this._key)
NewUpdate(isInit) ==
    [pc |-> "getKey", served |-> FALSE, failed |-> FALSE,
     current |-> SetOf(value), raw |-> Absent, isInit |-> isInit]

StartUpdate(isInit) ==
    /\ BagCardinality(updates) < MaxUpdates
    /\ updates' = updates (+) One(NewUpdate(isInit))

\* update() up to its await: `new Set(this.value)` (line 61) throws when
\* the cache is no array, and update() rejects before it reads anything
update(isInit) ==
    IF IsArray(value) THEN StartUpdate(isInit) ELSE UNCHANGED updates

\* the comparison of update(): does the new list differ from the snapshot;
\* the length of an object is undefined, which no size equals
Differs(current, list) ==
    IF list = Object THEN TRUE
    ELSE Cardinality(current) # Len(list)
            \/ ~(\A i \in 1..Len(list) : list[i] \in current)

\* `value ?? []`, line 64
OrEmpty(v) == IF v = Null THEN <<>> ELSE v

\* update() after get() has resolved with `list`
FinishUpdate(u, list) ==
    /\ value' = OrEmpty(list)
    /\ fired' = IF Differs(u.current, OrEmpty(list)) THEN fired + 1 ELSE fired
    /\ initialized' = IF u.isInit THEN "done" ELSE initialized
    /\ updates' = updates (-) One(u)

\* update() when get() has thrown (JSON.parse, or a backend call that
\* failed): the promise rejects, nothing is assigned
FailUpdate(u) ==
    /\ initialized' = IF u.isInit THEN "done" ELSE initialized
    /\ updates' = updates (-) One(u)
    /\ UNCHANGED <<value, fired>>

initialize ==
    /\ initialized = "no"
    /\ initialized' = IF IsArray(value) THEN "running" ELSE "done"
    /\ update(TRUE)
    /\ UNCHANGED <<secrets, value, calls, notifs, fired, log, external,
                   initial, rejected>>

\* setAllowedAccess, line 42-49: the list the call computes from the cache
NewValueForgetful(id, allowed) ==
    IF allowed THEN <<id>> ELSE Without(value, id)

NewValue(id, allowed) ==
    IF allowed THEN Append(value, id) ELSE Without(value, id)

\* setAllowedAccess, line 43 and 50: the early returns
IsNoOpUnchecked(id, allowed) ==
    IF allowed THEN FALSE
    ELSE Len(Without(value, id)) = Len(value)

IsNoOpDenyUnchecked(id, allowed) ==
    IF allowed THEN Includes(value, id) ELSE FALSE

IsNoOp(id, allowed) ==
    IF allowed THEN Includes(value, id)
    ELSE Len(Without(value, id)) = Len(value)

\* setAllowedAccess, line 46 and 53-57: the ledger call issued for the new
\* list; store() serializes it (line 114).  done / failed are the keys whose
\* backend call has succeeded / failed, settled is whether Promise.all has
\* already rejected
LedgerCallAlwaysStore(id, allowed) ==
    [op |-> "store", raw |-> Stringify(NewValue(id, allowed)), done |-> {},
     failed |-> {}, settled |-> FALSE]

LedgerCall(id, allowed) ==
    LET newValue == NewValue(id, allowed)
    IN  IF allowed \/ Len(newValue) > 0
        THEN [op |-> "store", raw |-> Stringify(newValue), done |-> {},
              failed |-> {}, settled |-> FALSE]
        ELSE [op |-> "delete", raw |-> Absent, done |-> {},
              failed |-> {}, settled |-> FALSE]

setAllowedAccessOptimistic(id, allowed) ==
    /\ log' = Append(log, [id |-> id, allowed |-> allowed, quiet |-> Quiescent,
                           fired |-> fired, noop |-> IsNoOp(id, allowed),
                           base |-> value,
                           op |-> IF IsNoOp(id, allowed) THEN "none"
                                  ELSE LedgerCall(id, allowed).op])
    /\ calls' = IF IsNoOp(id, allowed) THEN calls
                ELSE calls (+) One(LedgerCall(id, allowed))
    /\ value' = IF IsNoOp(id, allowed) THEN value ELSE NewValue(id, allowed)
    /\ UNCHANGED <<secrets, updates, notifs, initialized, fired, external, initial, rejected>>

\* setAllowedAccess(account, allowed) up to its await: either returns at once
\* or issues the two backend calls of store() / delete()
setAllowedAccess(id, allowed) ==
    /\ log' = Append(log, [id |-> id, allowed |-> allowed, quiet |-> Quiescent,
                           fired |-> fired, noop |-> IsNoOp(id, allowed),
                           base |-> value,
                           op |-> IF IsNoOp(id, allowed) THEN "none"
                                  ELSE LedgerCall(id, allowed).op])
    /\ calls' = IF IsNoOp(id, allowed) THEN calls
                ELSE calls (+) One(LedgerCall(id, allowed))
    /\ UNCHANGED <<secrets, value, updates, notifs, initialized, fired, external, initial, rejected>>

\* Promise.all of store() / delete() (line 116-119, 124-127) fulfils once
\* both backend calls have succeeded
CanResolveAllSettled(c) == c.done \cup c.failed = Keys
CanResolve(c) == c.done = Keys

\* the call's record once one more of its backend calls has been answered:
\* a call whose promise has rejected is forgotten when both are answered
Answered(c, d) ==
    IF d.settled /\ d.done \cup d.failed = Keys
    THEN calls (-) One(c)
    ELSE (calls (-) One(c)) (+) One(d)

\* the await of store() / delete() resumes once both backend calls are done
\* and setAllowedAccess returns
resolveSetAllowedAccess(c) ==
    /\ ~c.settled
    /\ CanResolve(c)
    /\ calls' = calls (-) One(c)
    /\ UNCHANGED <<secrets, value, updates, notifs, initialized, fired, log, external, initial, rejected>>

\* Promise.all rejects as soon as one backend call has failed, whatever the
\* other has done or will do; the rejection passes through store() /
\* delete() and setAllowedAccess (no catch on the way)
rejectSetAllowedAccess(c) ==
    /\ ~c.settled
    /\ c.failed # {}
    /\ calls' = Answered(c, [c EXCEPT !.settled = TRUE])
    /\ rejected' = rejected + 1
    /\ UNCHANGED <<secrets, value, updates, notifs, initialized, fired, log, external, initial>>

(* ---------------------------- the ledger ------------------------------ *)

\* the subscription of the ledger's constructor: which backend events it
\* re-emits
LedgerFiresAlways(k) == TRUE
LedgerFires(k) == k = key \/ k = legacyKey

\* get() resumed after secretStorage.get(this._key) (line 98-103)
getAfterKey(u) ==
    /\ u.pc = "getKey" /\ u.served
    /\ IF u.failed THEN FailUpdate(u)
       ELSE IF Truthy(u.raw)
       THEN IF Parse(u.raw).ok
            THEN FinishUpdate(u, Parse(u.raw).list)
            ELSE FailUpdate(u)
       ELSE /\ updates' = (updates (-) One(u))
                          (+) One([u EXCEPT !.pc = "getLegacy", !.served = FALSE])
            /\ UNCHANGED <<value, fired, initialized>>
    /\ UNCHANGED <<secrets, calls, notifs, log, external, initial, rejected>>

\* get() resumed after secretStorage.get(this._legacyKey) (line 103-110)
getAfterLegacy(u) ==
    /\ u.pc = "getLegacy" /\ u.served
    /\ IF u.failed THEN FailUpdate(u)
       ELSE IF Truthy(u.raw)
       THEN IF Parse(u.raw).ok
            THEN /\ updates' = (updates (-) One(u))
                               (+) One([u EXCEPT !.pc = "storeKey", !.served = FALSE])
                 /\ UNCHANGED <<value, fired, initialized>>
            ELSE FailUpdate(u)
       ELSE FinishUpdate(u, <<>>)
    /\ UNCHANGED <<secrets, calls, notifs, log, external, initial, rejected>>

\* parsedValue of get(), line 106
ParsedValue(u) == Parse(u.raw).list

\* get() resumed after the forward write (line 107-108): returns
\* parsedValue, or throws what the write threw (the await is in no try)
getAfterStore(u) ==
    /\ u.pc = "storeKey" /\ u.served
    /\ IF u.failed THEN FailUpdate(u) ELSE FinishUpdate(u, ParsedValue(u))
    /\ UNCHANGED <<secrets, calls, notifs, log, external, initial, rejected>>

(* ---------------------------- the backend ----------------------------- *)

\* SecretStorage promises no order between calls: the backend serves the
\* calls in flight in any order, and an awaiting function resumes at any
\* moment after its call was served.  Every store and delete it performs is
\* reported on its onDidChange stream.  In SpecFail every call may also
\* fail: it then has no effect and reports nothing.

\* the key a refresh is reading
ReadKey(u) == IF u.pc = "getKey" THEN key ELSE legacyKey

\* the backend answers a secretStorage.get
serveGet(u) ==
    /\ u.pc \in {"getKey", "getLegacy"} /\ ~u.served
    /\ updates' = (updates (-) One(u))
                  (+) One([u EXCEPT !.served = TRUE, !.raw = secrets[ReadKey(u)]])
    /\ UNCHANGED <<secrets, value, calls, notifs, initialized, fired, log, external, initial, rejected>>

\* the forward write of get(), line 107: the key written and the string
\* stored under it
ForwardKeyWrong == legacyKey
ForwardKey == key
ForwardValue(u) == u.raw

\* the backend performs the forward write of get() and reports the change
serveForwardStore(u) ==
    /\ u.pc = "storeKey" /\ ~u.served
    /\ secrets' = [secrets EXCEPT ![ForwardKey] = ForwardValue(u)]
    /\ notifs' = [notifs EXCEPT ![ForwardKey] = @ + 1]
    /\ updates' = (updates (-) One(u)) (+) One([u EXCEPT !.served = TRUE])
    /\ UNCHANGED <<value, calls, initialized, fired, log, external,
                   initial, rejected>>

\* the backend performs one of the two writes / deletes of a call and
\* reports the change
serveWrite(c, k) ==
    /\ k \notin c.done \cup c.failed
    /\ secrets' = [secrets EXCEPT ![k] = IF c.op = "store" THEN c.raw ELSE Absent]
    /\ notifs' = [notifs EXCEPT ![k] = @ + 1]
    /\ calls' = Answered(c, [c EXCEPT !.done = @ \cup {k}])
    /\ UNCHANGED <<value, updates, initialized, fired, log, external, initial, rejected>>

\* the backend fails a secretStorage.get: nothing is read
failGet(u) ==
    /\ u.pc \in {"getKey", "getLegacy"} /\ ~u.served
    /\ updates' = (updates (-) One(u))
                  (+) One([u EXCEPT !.served = TRUE, !.failed = TRUE])
    /\ UNCHANGED <<secrets, value, calls, notifs, initialized, fired, log, external, initial, rejected>>

\* the backend fails the forward write of get(): nothing is stored and
\* nothing is reported
failForwardStore(u) ==
    /\ u.pc = "storeKey" /\ ~u.served
    /\ updates' = (updates (-) One(u))
                  (+) One([u EXCEPT !.served = TRUE, !.failed = TRUE])
    /\ UNCHANGED <<secrets, value, calls, notifs, initialized, fired, log, external, initial, rejected>>

\* the backend fails one of the two writes / deletes of a call: nothing is
\* stored or deleted under that key and nothing is reported
failWrite(c, k) ==
    /\ k \notin c.done \cup c.failed
    /\ calls' = Answered(c, [c EXCEPT !.failed = @ \cup {k}])
    /\ UNCHANGED <<secrets, value, updates, notifs, initialized, fired, log, external, initial, rejected>>

\* the backend's onDidChange event for key k reaches the ledger, which
\* re-emits it for its two keys; the registry then starts a refresh
onDidChange(k) ==
    /\ notifs[k] > 0
    /\ notifs' = [notifs EXCEPT ![k] = @ - 1]
    /\ IF LedgerFires(k) THEN update(FALSE) ELSE UNCHANGED updates
    /\ UNCHANGED <<secrets, value, calls, initialized, fired, log, external, initial, rejected>>

\* a change the backend reports that this registry did not cause
externalChange(k) ==
    /\ external < MaxExternal
    /\ external' = external + 1
    /\ notifs' = [notifs EXCEPT ![k] = @ + 1]
    /\ UNCHANGED <<secrets, value, updates, calls, initialized, fired, log, initial, rejected>>

(* ------------------------- specifications ----------------------------- *)

Resolve == \E c \in BagToSet(calls) : resolveSetAllowedAccess(c)
AfterKey == \E u \in BagToSet(updates) : getAfterKey(u)
AfterLegacy == \E u \in BagToSet(updates) : getAfterLegacy(u)
AfterStore == \E u \in BagToSet(updates) : getAfterStore(u)
ServeGet == \E u \in BagToSet(updates) : serveGet(u)
ServeForwardStore == \E u \in BagToSet(updates) : serveForwardStore(u)
ServeWrite == \E c \in BagToSet(calls), k \in Keys : serveWrite(c, k)
Notify == \E k \in AllKeys : onDidChange(k)
Reject == \E c \in BagToSet(calls) : rejectSetAllowedAccess(c)
FailGet == \E u \in BagToSet(updates) : failGet(u)
FailForwardStore == \E u \in BagToSet(updates) : failForwardStore(u)
FailWrite == \E c \in BagToSet(calls), k \in Keys : failWrite(c, k)
External == \E k \in AllKeys : externalChange(k)

\* the caller issues setAllowedAccess at any moment
Call ==
    \E id \in Ids, allowed \in BOOLEAN :
        Len(log) < MaxCalls /\ setAllowedAccess(id, allowed)

\* the caller issues at most MaxExtCalls calls
CallExt ==
    \E id \in Ids, allowed \in BOOLEAN :
        Len(log) < MaxExtCalls /\ setAllowedAccess(id, allowed)

\* the caller issues at most MaxFailCalls calls
CallFail ==
    \E id \in Ids, allowed \in BOOLEAN :
        Len(log) < MaxFailCalls /\ setAllowedAccess(id, allowed)

\* the caller awaits each call's promise before it issues the next call
CallSeq ==
    \E id \in Ids, allowed \in BOOLEAN :
        /\ Len(log) < MaxSeqCalls
        /\ calls = EmptyBag
        /\ setAllowedAccess(id, allowed)

\* Spec: any backend content at construction, overlapping calls, no change
\* of the backend from outside
Next ==
    \/ initialize
    \/ Call
    \/ Resolve
    \/ AfterKey
    \/ AfterLegacy
    \/ AfterStore
    \/ ServeGet
    \/ ServeForwardStore
    \/ ServeWrite
    \/ Notify

Spec == Init /\ [][Next]_vars

\* SpecExt: as Spec, with backend notifications from outside
NextExt ==
    \/ initialize
    \/ CallExt
    \/ Resolve
    \/ AfterKey
    \/ AfterLegacy
    \/ AfterStore
    \/ ServeGet
    \/ ServeForwardStore
    \/ ServeWrite
    \/ Notify
    \/ External

SpecExt == Init /\ [][NextExt]_vars

\* SpecSeq: empty storage at construction, calls issued one after another
InitEmpty == InitWith({[k \in Keys |-> Absent]})

NextSeq ==
    \/ initialize
    \/ CallSeq
    \/ Resolve
    \/ AfterKey
    \/ AfterLegacy
    \/ AfterStore
    \/ ServeGet
    \/ ServeForwardStore
    \/ ServeWrite
    \/ Notify

SpecSeq == InitEmpty /\ [][NextSeq]_vars

\* SpecGet: the ledger's get() alone: refreshes started by initialize() and
\* by backend notifications, no setAllowedAccess
NextGet ==
    \/ initialize
    \/ AfterKey
    \/ AfterLegacy
    \/ AfterStore
    \/ ServeGet
    \/ ServeForwardStore
    \/ Notify
    \/ External

SpecGet == Init /\ [][NextGet]_vars

\* SpecFail: as Spec, on a backend whose every call may fail
NextFail ==
    \/ initialize
    \/ CallFail
    \/ Resolve
    \/ Reject
    \/ AfterKey
    \/ AfterLegacy
    \/ AfterStore
    \/ ServeGet
    \/ ServeForwardStore
    \/ ServeWrite
    \/ FailGet
    \/ FailForwardStore
    \/ FailWrite
    \/ Notify

SpecFail == Init /\ [][NextFail]_vars

\* SpecCorrupt: as SpecGet, on a backend that at construction holds under
\* each key nothing, a list, or a string that is no serialized list
StoredStrings == {Absent, Stringify(<<"A">>), Truncated, NullJson, ObjectJson}

InitCorrupt == InitWith([Keys -> StoredStrings])

SpecCorrupt == InitCorrupt /\ [][NextGet]_vars

(* ------------------------------ claims -------------------------------- *)

\* isAllowedAccess(account), line 38
isAllowedAccess(id) == Includes(value, id)

ListA == <<"A">>
BothHold(list) == [k \in Keys |-> Stringify(list)]

\* C1, as claimed: in every step in which a setAllowedAccess call that
\* issued backend calls resolves and leaves no other call in flight, the
\* current key and the legacy key hold the same value (the same string, or
\* both absent).  Spec has no writer of the backend but this registry.
C1_DualWriteConsistency ==
    [][((\E c \in BagToSet(calls) : resolveSetAllowedAccess(c))
           /\ calls' = EmptyBag)
          => secrets'[key] = secrets'[legacyKey]]_vars

C2_Scenario ==
    /\ initial = BothHold(ListA)
    /\ Len(log) = 1
    /\ log[1].id = "A" /\ ~log[1].allowed
    /\ log[1].quiet /\ log[1].base = ListA

\* C2, as claimed: both keys hold [A], the registry is initialized and
\* quiescent with cache [A], and setAllowedAccess(A, false) is the only call;
\* once it has resolved and every notification and refresh has completed,
\* both keys are absent and isAllowedAccess(A) is false.
C2_EmptyListDeletion ==
    (C2_Scenario /\ Quiescent)
        => /\ secrets[key] = Absent
           /\ secrets[legacyKey] = Absent
           /\ ~isAllowedAccess("A")

C3_Scenario ==
    /\ Len(log) = 3
    /\ log[1].quiet
    /\ log[1].allowed /\ log[2].allowed /\ ~log[3].allowed
    /\ {log[1].id, log[2].id} = {"A", "B"}
    /\ log[3].id = "A"

\* C3, as claimed: on an initialized registry over empty storage, the calls
\* allow X, allow Y, deny A with {X, Y} = {A, B}, each issued after the
\* previous call's promise resolved (SpecSeq); once everything pending has
\* completed, A is not allowed and B is allowed.
C3_SetSemantics ==
    (C3_Scenario /\ Quiescent) => (~isAllowedAccess("A") /\ isAllowedAccess("B"))

\* a step in which a refresh (update) ends
RefreshCompletes == BagCardinality(updates') < BagCardinality(updates)

\* C4, as claimed: a refresh that completes having read the set the cache
\* held immediately before its assignment emits no registry change event.
C4_ChangeEventSuppression ==
    [][(RefreshCompletes /\ SetOf(value') = SetOf(value)) => fired' = fired]_vars

\* C5, as claimed: a step that changes the cached set emits exactly one
\* registry change event (the cached set never changes silently).
C5_ChangeEventFiring ==
    [][SetOf(value') # SetOf(value) => fired' = fired + 1]_vars

\* C6, as claimed: (a) a single state-changing setAllowedAccess call issued
\* on a quiescent, initialized registry causes at most one registry change
\* event; (b) with only the legacy key populated at construction and no
\* call, the refreshes (initialize and the one the forward write triggers)
\* emit at most one registry change event in total.
C6_AtMostOneEventPerChange ==
    /\ (Len(log) = 1 /\ log[1].quiet /\ ~log[1].noop) => fired <= log[1].fired + 1
    /\ (log = <<>> /\ initial[key] = Absent /\ initial[legacyKey] # Absent)
           => fired <= 1

\* C7, as claimed: until initialize() has completed, isAllowedAccess(x) is
\* false for every account x.
C7_UninitializedQuery ==
    initialized # "done" => \A id \in Ids : ~isAllowedAccess(id)

\* a get() that has read the legacy value and whose forward write the
\* backend has performed: it is about to return
Migrated(u) == u.pc = "storeKey" /\ u.served

\* C8: with a valid list L under the legacy key and the current key absent
\* at construction, and no setAllowedAccess (SpecGet), every get() that took
\* the legacy branch returns L, and at the moment it returns the current key
\* holds the raw string read from the legacy key and the legacy key still
\* holds it too.
C8_LegacyMigration ==
    \A u \in BagToSet(updates) :
        Migrated(u) =>
            /\ secrets[key] = u.raw
            /\ secrets[legacyKey] = u.raw
            /\ u.raw = initial[legacyKey]
            /\ Stringify(ParsedValue(u)) = initial[legacyKey]
            /\ ParsedValue(u) \in InitialLists

C8_Witness ==
    \E u \in BagToSet(updates) :
        /\ Migrated(u)
        /\ initial[key] = Absent
        /\ ParsedValue(u) = <<"A", "B">>

\* the lists held by the backend and carried by the calls in flight
StoredLists ==
    {Parse(secrets[k]).list : k \in {j \in Keys : Truthy(secrets[j])}}
    \cup {Parse(c.raw).list : c \in {d \in BagToSet(calls) : d.op = "store"}}
    \cup {Parse(u.raw).list : u \in {v \in BagToSet(updates) : Truthy(v.raw)}}

\* two allow calls for the same account, the first one issued on a quiescent
\* registry over storage whose two keys agree, and both resolved
AllowedTwice ==
    /\ Len(log) = 2
    /\ log[1].allowed /\ log[2].allowed /\ log[1].id = log[2].id
    /\ log[1].quiet /\ ~log[1].noop
    /\ initial[key] = initial[legacyKey]
    /\ calls = EmptyBag

\* C9: no list in the cache, in the backend or in flight repeats an
\* identifier; an allow call for a cached identifier issues no backend call;
\* and after allowing the same account twice both keys hold what the first
\* call alone wrote (the cached list extended by that account).
C9_NoDuplicates ==
    /\ NoDup(value)
    /\ \A l \in StoredLists : NoDup(l)
    /\ \A i \in 1..Len(log) :
          (log[i].allowed /\ Includes(log[i].base, log[i].id)) => log[i].op = "none"
    /\ AllowedTwice =>
          \A k \in Keys : secrets[k] = Stringify(Append(log[1].base, log[1].id))

C9_Witness ==
    /\ AllowedTwice
    /\ log[2].op = "store"
    /\ log[1].base = <<"A">>
    /\ Quiescent

EmptyList == Stringify(<<>>)

\* C10: neither key ever holds the serialized empty list, no store() is
\* ever issued with an empty list, and a removal that empties the list is
\* issued as delete().
C10_NoStoredEmptyList ==
    /\ \A k \in Keys : secrets[k] # EmptyList
    /\ \A c \in BagToSet(calls) : c.op = "store" => c.raw # EmptyList
    /\ \A u \in BagToSet(updates) : u.raw # EmptyList
    /\ \A i \in 1..Len(log) :
          (~log[i].allowed /\ ~log[i].noop /\ Without(log[i].base, log[i].id) = <<>>)
              => log[i].op = "delete"

C10_Witness ==
    /\ Len(log) >= 1
    /\ log[1].op = "delete"
    /\ calls = EmptyBag
    /\ \A k \in Keys : secrets[k] = Absent

\* the call issued in this step, if one is
CallIssued == Len(log') = Len(log) + 1
Issued == log'[Len(log')]

\* C11: a setAllowedAccess(x, false) issued while x is not in the cache
\* issues no backend store and no backend delete, and leaves the backend,
\* its pending notifications and the cache as they were.
C11_IdempotentDeny ==
    [][(CallIssued /\ ~Issued.allowed /\ ~Includes(value, Issued.id))
          => /\ Issued.op = "none"
             /\ calls' = calls
             /\ secrets' = secrets
             /\ notifs' = notifs
             /\ value' = value]_vars

C11_Witness ==
    \E i \in 1..Len(log) :
        /\ ~log[i].allowed
        /\ log[i].base = <<"A">>
        /\ log[i].id = "B"
        /\ log[i].op = "none"

HoldsBoth(list) == Includes(list, "A") /\ Includes(list, "B")

\* allow A and allow B (in either order) as the only two calls, the first
\* one issued over the empty cache, on a store that did not hold both before
TwoAllows ==
    /\ \A k \in Keys : ~(Truthy(initial[k]) /\ HoldsBoth(Parse(initial[k]).list))
    /\ Len(log) = 2
    /\ log[1].allowed /\ log[2].allowed
    /\ {log[1].id, log[2].id} = {"A", "B"}
    /\ log[1].base = <<>>

\* C12: when allow A and allow B both compute their new list from the same
\* cache (the second is issued before any refresh has shown the first), no
\* key and no cache ever holds both accounts: one update is lost.  When the
\* second is issued on a registry that is quiescent after the first (its
\* writes performed, its refreshes completed), then once the second has
\* resolved both keys hold both accounts.
C12_LostUpdate ==
    /\ (TwoAllows /\ log[2].base = <<>>)
          => /\ ~HoldsBoth(value)
             /\ \A l \in StoredLists : ~HoldsBoth(l)
    /\ (TwoAllows /\ log[1].quiet /\ log[2].quiet /\ calls = EmptyBag)
          => \A k \in Keys : Truthy(secrets[k]) /\ HoldsBoth(Parse(secrets[k]).list)

\* the race of C12 has run to its end: both calls resolved, every refresh
\* completed, and one account is missing from the store and from the cache
C12_Witness ==
    /\ TwoAllows /\ log[2].base = <<>>
    /\ log[1].quiet
    /\ Quiescent
    /\ secrets[key] = Stringify(<<"B">>)
    /\ secrets[legacyKey] = Stringify(<<"B">>)
    /\ value = <<"B">>

\* a step in which a refresh resumes from an await of get()
RefreshResumes ==
    \E u \in BagToSet(updates) : updates' = updates (-) One(u)

\* C16: the cache is written by refreshes only: every step that changes the
\* cache is the completion of a refresh, and a step that issues a
\* setAllowedAccess, performs one of its writes or resolves it leaves the
\* cache, and so every answer of isAllowedAccess, as it was.
C16_CacheSingleWriter ==
    [][/\ (value' # value => RefreshResumes)
       /\ ((CallIssued \/ calls' # calls) => value' = value)]_vars

\* a call has changed both keys and resolved, and the cache still is the
\* list the call started from
C16_Witness ==
    /\ Len(log) = 1
    /\ log[1].allowed /\ log[1].id = "B" /\ log[1].base = <<"A">>
    /\ calls = EmptyBag
    /\ \A k \in Keys : secrets[k] = Stringify(<<"A", "B">>)
    /\ value = <<"A">>

\* the list stored under the current key, empty when the key is absent
StoredCurrent ==
    IF Truthy(secrets[key]) THEN Parse(secrets[key]).list ELSE <<>>

\* C19: on a registry whose calls were all issued after initialize()
\* completed, once every pending call and refresh has completed and no
\* notification is outstanding, the cached set equals the set stored under
\* the current key (empty when the key is absent).
C19_EventualCacheConsistency ==
    (Quiescent /\ (log # <<>> => log[1].quiet))
        => SetOf(value) = SetOf(StoredCurrent)

\* the number of refreshes started in this step
Started == BagCardinality(updates') - BagCardinality(updates)

\* C17: a backend notification delivered for the current or the legacy key
\* starts exactly one refresh, a notification for any other key starts
\* none, and a refresh is started by initialize() or by such a notification
\* only.
C17_LedgerChangeFilter ==
    [][/\ \A k \in AllKeys :
            notifs'[k] < notifs[k]
                => Started = (IF k = key \/ k = legacyKey THEN 1 ELSE 0)
       /\ Started > 0
            => \/ initialized = "no" /\ initialized' = "running"
               \/ \E k \in {key, legacyKey} : notifs'[k] < notifs[k]]_vars

\* a notification for another key was delivered to a registry that was
\* never initialized and never called: the stored list was not read
C17_Witness ==
    /\ initial = BothHold(ListA)
    /\ external > 0
    /\ \A k \in AllKeys : notifs[k] = 0
    /\ initialized = "no"
    /\ log = <<>>
    /\ updates = EmptyBag
    /\ value = <<>>
    /\ fired = 0

\* refresh u takes a step: its backend call is answered, or it resumes
Steps(u) == CopiesIn(u, updates') < CopiesIn(u, updates)

\* refresh u with its forward write failed
ForwardFailed(u) == [u EXCEPT !.served = TRUE, !.failed = TRUE]

\* C13: when the forward write of a migrating get() fails, get() still
\* returns the legacy list (the refresh that called it assigns that list to
\* the cache), and the failed write leaves the backend as it was, so the
\* current key stays absent for the next get() to migrate again.
C13_BestEffortMigration ==
    [][\A u \in BagToSet(updates) :
          /\ (u.pc = "storeKey" /\ u.served /\ u.failed /\ Steps(u))
                => value' = ParsedValue(u)
          /\ (u.pc = "storeKey" /\ ~u.served /\ Steps(u)
                  /\ ForwardFailed(u) \in BagToSet(updates'))
                => secrets' = secrets]_vars

\* a backend call of c is answered, or its promise settles, in this step
Settles(c) == CopiesIn(c, calls') < CopiesIn(c, calls)

\* C15: a setAllowedAccess whose store() / delete() issued two backend
\* calls resolves only if both succeeded; when it rejects, the step of
\* rejection changes neither the backend (the write that succeeded stays,
\* nothing is rolled back) nor the cache, and starts no refresh; and no call
\* is issued again for a key whose call failed (no retry).
C15_PartialFailure ==
    [][\A c \in BagToSet(calls) :
          /\ (Settles(c) /\ ~c.settled /\ calls' = calls (-) One(c)
                  /\ rejected' = rejected)
                => c.done = Keys /\ c.failed = {}
          /\ rejected' # rejected
                => /\ secrets' = secrets
                   /\ value' = value
                   /\ updates' = updates
                   /\ BagCardinality(calls') <= BagCardinality(calls)
          /\ (Settles(c) /\ c.failed # {})
                => \A d \in BagToSet(calls') : c.failed \subseteq d.failed \/ d \in BagToSet(calls)]_vars

\* a call has rejected after exactly one of its two writes failed: the
\* legacy key holds the new list, the current key the old one, and the
\* cache was refreshed from the current key
C15_Witness ==
    /\ rejected = 1
    /\ Len(log) = 1 /\ log[1].id = "B" /\ log[1].allowed /\ log[1].base = <<"A">>
    /\ calls = EmptyBag
    /\ secrets[key] = Stringify(<<"A">>)
    /\ secrets[legacyKey] = Stringify(<<"A", "B">>)
    /\ Quiescent
    /\ value = <<"A">>

\* a stored string that is no serialized array of strings
Malformed(raw) ==
    Truthy(raw) /\ ~(Parse(raw).ok /\ IsArray(Parse(raw).list))

\* C14: a refresh whose get() has read a string that is no serialized array
\* of strings (unparsable, or parsable to another shape) fails there: it
\* ends, leaves the cache as it was, emits no event and issues no backend
\* write.
C14_CorruptedStorage ==
    [][\A u \in BagToSet(updates) :
          (u.served /\ u.pc \in {"getKey", "getLegacy"} /\ Malformed(u.raw) /\ Steps(u))
              => /\ updates' = updates (-) One(u)
                 /\ value' = value
                 /\ fired' = fired
                 /\ secrets' = secrets]_vars

\* C18: get() never writes or deletes the legacy key, and the only backend
\* write it issues is the forward write of a refresh that read the current
\* key absent and a well-formed legacy string; so no malformed string is
\* ever copied into the current key.
C18_GetWriteFootprint ==
    [][/\ secrets'[legacyKey] = secrets[legacyKey]
       /\ \A u \in BagToSet(updates') :
            (u.pc = "storeKey" /\ ~u.served) => ~Malformed(u.raw)
       /\ secrets'[key] # secrets[key]
            => /\ secrets[key] = Absent
               /\ ~Malformed(secrets'[key])]_vars

====
